---------------------------- MODULE Spec2Model ----------------------------
(***************************************************************************)
(* SmartTask Pro (src/App.tsx): the task collection of the App component,  *)
(* its handlers, its effects (load, persistence, session, global timer),   *)
(* the keyword tables of src/constants.ts and the derived statistics.      *)
(*                                                                         *)
(* Text is a sequence of one-character strings, so that trimming, case     *)
(* folding, capitalisation and tokenisation are computed, not assumed.     *)
(* Time is counted in hours.                                               *)
(*                                                                         *)
(* A handler or a timer callback runs to completion; the effects of the    *)
(* render it causes then run one by one, in the order of their             *)
(* declaration, each on the values of that render, before the next handler *)
(* or tick.  setTasks inside the load effect is applied by a later render. *)
(* The view, the filter and the theme never touch the collection and are   *)
(* left out.                                                               *)
(***************************************************************************)
EXTENDS Integers, Sequences, FiniteSets, TLC

(* ------------------------------ bounds -------------------------------- *)

\* Largest number of records the collection may hold when addTask is called.
MaxTasks == 2

\* Largest timeSpent a running task reaches before the interval stops firing.
MaxTime == 1

\* Number of identifiers crypto.randomUUID() can still hand out.
MaxNewIds == 2

\* Number of times the wall clock advances.
MaxClockSteps == 1

\* Largest number of outstanding setTimeout callbacks that clear the error.
MaxErrorTimers == 1

(* ------------------------------ characters ---------------------------- *)

UPPER == <<"A", "B", "C", "D", "E", "F", "G", "H", "I", "J", "K", "L", "M", "N", "O", "P", "Q", "R", "S", "T", "U", "V", "W", "X", "Y", "Z">>

LOWER == <<"a", "b", "c", "d", "e", "f", "g", "h", "i", "j", "k", "l", "m", "n", "o", "p", "q", "r", "s", "t", "u", "v", "w", "x", "y", "z">>

DIGITS == {"0", "1", "2", "3", "4", "5", "6", "7", "8", "9"}

WHITESPACE == {" "}

Range(s) == {s[i] : i \in DOMAIN s}

IndexIn(c, alphabet) == CHOOSE i \in DOMAIN alphabet : alphabet[i] = c

\* String.prototype.toLowerCase, one character
toLowerChar(c) == IF c \in Range(UPPER) THEN LOWER[IndexIn(c, UPPER)] ELSE c

\* String.prototype.toUpperCase, one character
toUpperChar(c) == IF c \in Range(LOWER) THEN UPPER[IndexIn(c, LOWER)] ELSE c

toLowerCase(s) == [i \in DOMAIN s |-> toLowerChar(s[i])]

isAlnum(c) == c \in Range(UPPER) \cup Range(LOWER) \cup DIGITS

RECURSIVE trimStart(_)
trimStart(s) ==
    IF s # <<>> /\ Head(s) \in WHITESPACE THEN trimStart(Tail(s)) ELSE s

RECURSIVE trimEnd(_)
trimEnd(s) ==
    IF s # <<>> /\ s[Len(s)] \in WHITESPACE
    THEN trimEnd(SubSeq(s, 1, Len(s) - 1))
    ELSE s

\* String.prototype.trim
trim(s) == trimEnd(trimStart(s))

(* ------------------------- src/constants.ts --------------------------- *)

HIGH_KEYWORDS ==
    << <<"u", "r", "g", "e", "n", "t">>,
       <<"a", "s", "a", "p">>,
       <<"i", "m", "p", "o", "r", "t", "a", "n", "t">>,
       <<"d", "e", "a", "d", "l", "i", "n", "e">>,
       <<"e", "x", "a", "m">>,
       <<"f", "i", "n", "a", "l">>,
       <<"m", "u", "s", "t">>,
       <<"a", "l", "e", "r", "t">>,
       <<"c", "r", "i", "s", "i", "s">> >>

MEDIUM_KEYWORDS_NoBuy ==
    << <<"c", "a", "l", "l">>,
       <<"e", "m", "a", "i", "l">>,
       <<"m", "e", "e", "t", "i", "n", "g">>,
       <<"r", "e", "v", "i", "e", "w">>,
       <<"s", "h", "o", "p">>,
       <<"p", "r", "e", "p", "a", "r", "e">>,
       <<"d", "i", "s", "c", "u", "s", "s">> >>

MEDIUM_KEYWORDS ==
    << <<"c", "a", "l", "l">>,
       <<"e", "m", "a", "i", "l">>,
       <<"m", "e", "e", "t", "i", "n", "g">>,
       <<"r", "e", "v", "i", "e", "w">>,
       <<"b", "u", "y">>,
       <<"s", "h", "o", "p">>,
       <<"p", "r", "e", "p", "a", "r", "e">>,
       <<"d", "i", "s", "c", "u", "s", "s">> >>

PRIORITY_KEYWORDS ==
    [High |-> HIGH_KEYWORDS, Medium |-> MEDIUM_KEYWORDS, Low |-> <<>>]

TAG_MAPPING ==
    << <<<<"s", "t", "u", "d", "y">>, "Education">>,
       <<<<"e", "x", "a", "m">>, "Academic">>,
       <<<<"m", "e", "e", "t", "i", "n", "g">>, "Work">>,
       <<<<"p", "r", "o", "j", "e", "c", "t">>, "Work">>,
       <<<<"o", "f", "f", "i", "c", "e">>, "Work">>,
       <<<<"g", "y", "m">>, "Health">>,
       <<<<"w", "o", "r", "k", "o", "u", "t">>, "Health">>,
       <<<<"r", "u", "n">>, "Health">>,
       <<<<"b", "u", "y">>, "Shopping">>,
       <<<<"g", "r", "o", "c", "e", "r", "y">>, "Errands">>,
       <<<<"s", "h", "o", "p">>, "Shopping">>,
       <<<<"d", "i", "n", "n", "e", "r">>, "Personal">>,
       <<<<"f", "a", "m", "i", "l", "y">>, "Personal">> >>

STORAGE_KEY == "smart_task_pro_data"

(* ---------------------------- utils/helpers --------------------------- *)

\* The words of a text: maximal runs of letters and digits, lower-cased.
RECURSIVE splitWords(_, _, _)
splitWords(s, word, acc) ==
    IF s = <<>>
    THEN IF word = <<>> THEN acc ELSE Append(acc, word)
    ELSE IF isAlnum(Head(s))
         THEN splitWords(Tail(s), Append(word, toLowerChar(Head(s))), acc)
         ELSE splitWords(Tail(s), <<>>,
                         IF word = <<>> THEN acc ELSE Append(acc, word))

tokenize(text) == splitWords(text, <<>>, <<>>)

\* First letter upper-cased, the rest unchanged.
capitalize(s) ==
    IF s = <<>> THEN s ELSE <<toUpperChar(Head(s))>> \o Tail(s)

matchesAny(words, keywords) ==
    \E i \in DOMAIN words : \E k \in DOMAIN keywords : words[i] = keywords[k]

\* A classifier that tests the Medium table before the High table.
determinePriority_MediumFirst(text) ==
    LET words == tokenize(text) IN
    IF matchesAny(words, PRIORITY_KEYWORDS.Medium) THEN "Medium"
    ELSE IF matchesAny(words, PRIORITY_KEYWORDS.High) THEN "High"
    ELSE "Low"

\* The table is scanned from the highest severity down; the first level one
\* of whose keywords is a word of the text wins, Low otherwise.
determinePriority(text) ==
    LET words == tokenize(text) IN
    IF matchesAny(words, PRIORITY_KEYWORDS.High) THEN "High"
    ELSE IF matchesAny(words, PRIORITY_KEYWORDS.Medium) THEN "Medium"
    ELSE "Low"

tagOf(word) ==
    LET hits == {k \in DOMAIN TAG_MAPPING : TAG_MAPPING[k][1] = word} IN
    IF hits = {} THEN "" ELSE TAG_MAPPING[CHOOSE k \in hits : TRUE][2]

RECURSIVE collectTags(_, _)
collectTags(words, acc) ==
    IF words = <<>> THEN acc
    ELSE LET tg == tagOf(Head(words)) IN
         collectTags(Tail(words),
                     IF tg = "" \/ tg \in Range(acc) THEN acc
                     ELSE Append(acc, tg))

\* The categories of the words of the text, each once, in order of first use.
determineTags(text) == collectTags(tokenize(text), <<>>)

HOURS_PER_DAY == 24

RETENTION_DAYS == 30

\* The calendar day a point in time falls on.
dayOf(t) == t \div HOURS_PER_DAY

\* Inclusive: a record created exactly 30 days before `at` is still inside.
isWithinLast30Days(createdAt, at) ==
    at - createdAt <= RETENTION_DAYS * HOURS_PER_DAY

isToday(createdAt, at) == dayOf(createdAt) = dayOf(at)

(* ------------------------------ inputs -------------------------------- *)

TxtEmpty == <<>>

TxtBlank == <<" ", " ", " ">>

TxtBuyGroceries == <<"B", "u", "y", " ", "g", "r", "o", "c", "e", "r", "i", "e", "s">>

TxtUrgentExam == <<"U", "R", "G", "E", "N", "T", " ", "e", "x", "a", "m", " ", "t", "o", "m", "o", "r", "r", "o", "w">>

TxtCallMom == <<" ", " ", "c", "a", "l", "l", " ", "m", "o", "m", "!">>

TxtWalkDog == <<"w", "a", "l", "k", " ", "d", "o", "g">>

TxtStudyExam == <<"s", "t", "u", "d", "y", ",", "E", "x", "a", "m", ";", "s", "h", "o", "p">>

TxtPlan == <<"p", "l", "a", "n", " ", "B", " ">>

\* What the user may have typed into the input when the form is submitted.
AddInputs == {TxtBlank, TxtCallMom}

\* Inputs that exercise the keyword tables.
ClassifierInputs ==
    {TxtBuyGroceries, TxtUrgentExam, TxtCallMom, TxtWalkDog, TxtStudyExam}

\* Inputs that are rejected.
BlankInputs == {TxtEmpty, TxtBlank}

\* What the user may have typed into the edit field of a task.
EditInputs == {TxtBlank, TxtPlan}

Users == {"alice", "bob"}

\* The user who logs in during a run of the single-user specifications.
LoginUsers == {"alice"}

NULL == "null"

NoUser == NULL

\* localStorage.getItem gives null for a key never written: a stored value is
\* <<v>>, a missing one <<>>.
Missing == <<>>

Stored(v) == <<v>>

ERROR_MESSAGE == "Please enter a valid task description."

\* The start of the run: day 41, 16:00.
Now0 == 41 * HOURS_PER_DAY + 16

(* --------------------- records stored before the run ------------------ *)

\* Created 30 days and one hour before the start, completed.
StoredStale ==
    [id |-> 1, text |-> <<"O", "l", "d">>, completed |-> TRUE,
     createdAt |-> Now0 - RETENTION_DAYS * HOURS_PER_DAY - 1,
     priority |-> "Low", tags |-> <<>>, timeSpent |-> 1,
     isTimerRunning |-> FALSE]

\* Created exactly 30 days before the start.
StoredEdge ==
    [id |-> 2, text |-> <<"E", "x", "a", "m">>, completed |-> FALSE,
     createdAt |-> Now0 - RETENTION_DAYS * HOURS_PER_DAY,
     priority |-> "High", tags |-> <<"Academic">>, timeSpent |-> 0,
     isTimerRunning |-> FALSE]

\* Created 29 days before the start by a version that stored no timer fields.
StoredLegacy ==
    [id |-> 3, text |-> <<"G", "y", "m">>, completed |-> FALSE,
     createdAt |-> Now0 - 29 * HOURS_PER_DAY,
     priority |-> "Low", tags |-> <<"Health">>]

StoredBlob == <<StoredStale, StoredEdge, StoredLegacy>>

FirstNewId == Len(StoredBlob) + 1

(* ------------------------------- state -------------------------------- *)

VARIABLES
    currentUser,   \* useState<User | null>: a user name or NoUser
    tasks,         \* useState<Task[]>: the collection of the last render
    storage,       \* localStorage: user name -> Stored(collection) or Missing
    session,       \* localStorage[SESSION_KEY]: a user name or NULL
    interval,      \* TRUE while the setInterval of the timer effect is armed
    pending,       \* effects of the last render that have not run yet
    queued,        \* <<v>> when setTasks(v) of the load effect awaits a render
    error,         \* useState<string | null>
    errorTimers,   \* number of pending setTimeout(() => setError(null), 3000)
    now,           \* the wall clock, in hours
    nextId,        \* the next identifier crypto.randomUUID() returns
    lastOp         \* the last handler or callback that ran, with its arguments

vars ==
    <<currentUser, tasks, storage, session, interval, pending, queued, error,
      errorTimers, now, nextId, lastOp>>

Op(name, id, text) == [op |-> name, id |-> id, text |-> text]

ids(ts) == {ts[i].id : i \in DOMAIN ts}

someRunning(ts) == \E i \in DOMAIN ts : ts[i].isTimerRunning = TRUE

\* Array.prototype.map
Map(f(_), ts) == [i \in DOMAIN ts |-> f(ts[i])]

\* `${STORAGE_KEY}_${currentUser.username}`, '' without a user
userStorageKey(user) == IF user # NoUser THEN <<STORAGE_KEY, user>> ELSE <<>>

\* No effect of the last render is outstanding and no state update awaits a
\* render: the next thing to run is a handler, a timer callback or nothing.
Settled == pending = <<>> /\ queued = <<>>

\* Every effect runs after the first render and after a change of user.
ALL_EFFECTS == <<"load", "persist", "session", "timer">>

\* A persistence effect whose dependency list lacks `tasks`.
effectsAfter_NoPersist(old, new) ==
    IF someRunning(old) # someRunning(new) THEN <<"timer">> ELSE <<>>

\* A timer effect that depends on `tasks` itself: it runs after every
\* setTasks.
effectsAfter_AlwaysTimer(old, new) == <<"persist", "timer">>

\* A timer effect that depends on the user only.
effectsAfter_NoTimer(old, new) == <<"persist">>

\* The effects whose dependencies differ between two renders of one user:
\* `tasks` is a new array after every setTasks; the timer effect depends on
\* tasks.some(t => t.isTimerRunning).

effectsAfter(old, new) ==
    <<"persist">> \o
    (IF someRunning(old) # someRunning(new) THEN <<"timer">> ELSE <<>>)

Init ==
    /\ session \in {NULL, "alice"}
    /\ currentUser = session
    /\ tasks = <<>>
    /\ storage = [u \in Users |-> IF u = "alice" THEN Stored(StoredBlob) ELSE Missing]
    /\ interval = FALSE
    /\ pending = ALL_EFFECTS
    /\ queued = <<>>
    /\ error = NULL
    /\ errorTimers = 0
    /\ now = Now0
    /\ nextId = FirstNewId
    /\ lastOp = Op("mount", 0, <<>>)

(* ------------------------------ handlers ------------------------------ *)

\* A record whose priority is never classified.
newTask_NoClassify(id, trimmedText, at) ==
    [id |-> id, text |-> capitalize(trimmedText), completed |-> FALSE,
     createdAt |-> at, priority |-> "Low",
     tags |-> determineTags(trimmedText), timeSpent |-> 0,
     isTimerRunning |-> FALSE]

newTask(id, trimmedText, at) ==
    [id |-> id, text |-> capitalize(trimmedText), completed |-> FALSE,
     createdAt |-> at, priority |-> determinePriority(trimmedText),
     tags |-> determineTags(trimmedText), timeSpent |-> 0,
     isTimerRunning |-> FALSE]

\* A rejection that never schedules the callback that clears the message.
AddTaskRejected_NoTimeout(inputValue) ==
    /\ currentUser # NoUser
    /\ Settled
    /\ trim(inputValue) = <<>>
    /\ errorTimers < MaxErrorTimers
    /\ error' = ERROR_MESSAGE
    /\ lastOp' = Op("addTask", 0, inputValue)
    /\ UNCHANGED <<currentUser, tasks, storage, session, interval, pending,
                   queued, errorTimers, now, nextId>>

\* addTask with an input that is empty after trimming.
AddTaskRejected(inputValue) ==
    /\ currentUser # NoUser
    /\ Settled
    /\ trim(inputValue) = <<>>
    /\ errorTimers < MaxErrorTimers
    /\ error' = ERROR_MESSAGE
    /\ errorTimers' = errorTimers + 1
    /\ lastOp' = Op("addTask", 0, inputValue)
    /\ UNCHANGED <<currentUser, tasks, storage, session, interval, pending,
                   queued, now, nextId>>

\* A creation that appends the new record instead of putting it first.
AddTaskAccepted_Append(inputValue) ==
    /\ currentUser # NoUser
    /\ Settled
    /\ trim(inputValue) # <<>>
    /\ Len(tasks) < MaxTasks
    /\ nextId < FirstNewId + MaxNewIds
    /\ tasks' = Append(tasks, newTask(nextId, trim(inputValue), now))
    /\ nextId' = nextId + 1
    /\ error' = NULL
    /\ pending' = effectsAfter(tasks, tasks')
    /\ lastOp' = Op("addTask", nextId, inputValue)
    /\ UNCHANGED <<currentUser, storage, session, interval, queued,
                   errorTimers, now>>

\* addTask with a valid input.
AddTaskAccepted(inputValue) ==
    /\ currentUser # NoUser
    /\ Settled
    /\ trim(inputValue) # <<>>
    /\ Len(tasks) < MaxTasks
    /\ nextId < FirstNewId + MaxNewIds
    /\ tasks' = <<newTask(nextId, trim(inputValue), now)>> \o tasks
    /\ nextId' = nextId + 1
    /\ error' = NULL
    /\ pending' = effectsAfter(tasks, tasks')
    /\ lastOp' = Op("addTask", nextId, inputValue)
    /\ UNCHANGED <<currentUser, storage, session, interval, queued,
                   errorTimers, now>>

\* The callback of setTimeout(() => setError(null), 3000).
ErrorTimeout ==
    /\ errorTimers > 0
    /\ error' = NULL
    /\ errorTimers' = errorTimers - 1
    /\ UNCHANGED <<currentUser, tasks, storage, session, interval, pending,
                   queued, now, nextId, lastOp>>

handleLogout ==
    /\ currentUser # NoUser
    /\ Settled
    /\ currentUser' = NoUser
    /\ pending' = ALL_EFFECTS
    /\ lastOp' = Op("logout", 0, <<>>)
    /\ UNCHANGED <<tasks, storage, session, interval, queued, error,
                   errorTimers, now, nextId>>

\* AuthView's onLogin = setCurrentUser.
onLogin(user) ==
    /\ currentUser = NoUser
    /\ Settled
    /\ currentUser' = user
    /\ pending' = ALL_EFFECTS
    /\ lastOp' = Op("login", 0, <<>>)
    /\ UNCHANGED <<tasks, storage, session, interval, queued, error,
                   errorTimers, now, nextId>>

\* A toggle that leaves the timer of a task that becomes completed running.
toggleOne_KeepsTimer(t) == [t EXCEPT !.completed = ~t.completed]

toggleOne(t) ==
    [t EXCEPT !.completed = ~t.completed,
              !.isTimerRunning = IF ~t.completed THEN FALSE
                                 ELSE t.isTimerRunning]

toggledTasks(id, prev) ==
    [i \in DOMAIN prev |-> IF prev[i].id = id THEN toggleOne(prev[i])
                           ELSE prev[i]]

\* The updater of every handler runs on the rendered collection and is
\* followed by the effects that depend on what it changed.
SetTasks(new, op) ==
    /\ currentUser # NoUser
    /\ Settled
    /\ tasks' = new
    /\ pending' = effectsAfter(tasks, new)
    /\ lastOp' = op
    /\ UNCHANGED <<currentUser, storage, session, interval, queued, error,
                   errorTimers, now, nextId>>

toggleTask(id) == SetTasks(toggledTasks(id, tasks), Op("toggleTask", id, <<>>))

timerToggledTasks(id, prev) ==
    [i \in DOMAIN prev |->
        IF prev[i].id = id
        THEN [prev[i] EXCEPT !.isTimerRunning = ~prev[i].isTimerRunning]
        ELSE prev[i]]

toggleTimer(id) ==
    SetTasks(timerToggledTasks(id, tasks), Op("toggleTimer", id, <<>>))

\* Array.prototype.filter
Filter(ts, keep(_)) == SelectSeq(ts, keep)

\* A removal by position: splice(findIndex(...), 1) removes the last record
\* when no record carries the identifier.
deletedTasks_Splice(id, prev) ==
    IF id \in ids(prev) THEN LET keep(t) == t.id # id IN Filter(prev, keep)
    ELSE IF prev = <<>> THEN prev ELSE SubSeq(prev, 1, Len(prev) - 1)

deletedTasks(id, prev) == LET keep(t) == t.id # id IN Filter(prev, keep)

deleteTask(id) == SetTasks(deletedTasks(id, tasks), Op("deleteTask", id, <<>>))

\* An edit that classifies the new text again.
editedTasks_Reclassify(id, newText, prev) ==
    [i \in DOMAIN prev |->
        IF prev[i].id = id
        THEN [prev[i] EXCEPT !.text = capitalize(trim(newText)),
                             !.priority = determinePriority(trim(newText)),
                             !.tags = determineTags(trim(newText))]
        ELSE prev[i]]

editedTasks(id, newText, prev) ==
    [i \in DOMAIN prev |->
        IF prev[i].id = id
        THEN [prev[i] EXCEPT !.text = capitalize(trim(newText))]
        ELSE prev[i]]

\* editTask returns before setTasks when the new text is blank: no render.
editTask(id, newText) ==
    IF trim(newText) = <<>>
    THEN /\ currentUser # NoUser
         /\ Settled
         /\ lastOp' = Op("editTask", id, newText)
         /\ UNCHANGED <<currentUser, tasks, storage, session, interval,
                        pending, queued, error, errorTimers, now, nextId>>
    ELSE SetTasks(editedTasks(id, newText, tasks), Op("editTask", id, newText))

clearedTasks(prev) == LET keep(t) == ~t.completed IN Filter(prev, keep)

clearCompleted == SetTasks(clearedTasks(tasks), Op("clearCompleted", 0, <<>>))

(* --------------------------- the timer tick --------------------------- *)

\* A tick that advances every task, running or not.
tickedTasks_All(prev) ==
    [i \in DOMAIN prev |-> [prev[i] EXCEPT !.timeSpent = @ + 1]]

\* A tick that advances only the first running task.
tickedTasks_FirstOnly(prev) ==
    [i \in DOMAIN prev |->
        IF prev[i].isTimerRunning
           /\ \A k \in 1 .. (i - 1) : ~prev[k].isTimerRunning
        THEN [prev[i] EXCEPT !.timeSpent = @ + 1]
        ELSE prev[i]]

tickedTasks(prev) ==
    [i \in DOMAIN prev |->
        IF prev[i].isTimerRunning
        THEN [prev[i] EXCEPT !.timeSpent = @ + 1]
        ELSE prev[i]]

\* The setInterval callback; it can fire only while the interval is armed.
Tick ==
    /\ interval
    /\ Settled
    /\ \A i \in DOMAIN tasks :
          tasks[i].isTimerRunning => tasks[i].timeSpent < MaxTime
    /\ tasks' = tickedTasks(tasks)
    /\ pending' = effectsAfter(tasks, tasks')
    /\ lastOp' = Op("tick", 0, <<>>)
    /\ UNCHANGED <<currentUser, storage, session, interval, queued, error,
                   errorTimers, now, nextId>>

(* ------------------------------ effects ------------------------------- *)

\* t.timeSpent || 0 and !!t.isTimerRunning: a field that was never stored
\* reads as undefined.
normalized(t) ==
    [id |-> t.id, text |-> t.text, completed |-> t.completed,
     createdAt |-> t.createdAt, priority |-> t.priority, tags |-> t.tags,
     timeSpent |-> IF "timeSpent" \in DOMAIN t THEN t.timeSpent ELSE 0,
     isTimerRunning |-> IF "isTimerRunning" \in DOMAIN t
                        THEN t.isTimerRunning ELSE FALSE]

\* A load that keeps every stored record.
cleaned_NoFilter(parsed, at) == Map(normalized, parsed)

cleaned(parsed, at) ==
    LET keep(t) == isWithinLast30Days(t.createdAt, at) IN
    Map(normalized, Filter(parsed, keep))

\* localStorage.getItem(key), then saved ? JSON.parse(saved) : []
parsedBlob(saved) == IF saved # Missing THEN saved[1] ELSE <<>>

\* A load effect that leaves the collection alone when no user is logged in.
EffectLoad_NoClear ==
    /\ pending # <<>>
    /\ Head(pending) = "load"
    /\ IF currentUser # NoUser /\ userStorageKey(currentUser) # <<>>
       THEN queued' = <<cleaned(parsedBlob(storage[currentUser]), now)>>
       ELSE queued' = queued
    /\ pending' = Tail(pending)
    /\ UNCHANGED <<currentUser, tasks, storage, session, interval, error,
                   errorTimers, now, nextId, lastOp>>

\* "Load tasks when user changes"
EffectLoad ==
    /\ pending # <<>>
    /\ Head(pending) = "load"
    /\ IF currentUser # NoUser /\ userStorageKey(currentUser) # <<>>
       THEN queued' = <<cleaned(parsedBlob(storage[currentUser]), now)>>
       ELSE queued' = << <<>> >>
    /\ pending' = Tail(pending)
    /\ UNCHANGED <<currentUser, tasks, storage, session, interval, error,
                   errorTimers, now, nextId, lastOp>>

\* "Persistence": the collection of the render the effect belongs to.
EffectPersist ==
    /\ pending # <<>>
    /\ Head(pending) = "persist"
    /\ storage' = IF currentUser # NoUser /\ userStorageKey(currentUser) # <<>>
                  THEN [storage EXCEPT ![currentUser] = Stored(tasks)]
                  ELSE storage
    /\ pending' = Tail(pending)
    /\ UNCHANGED <<currentUser, tasks, session, interval, queued, error,
                   errorTimers, now, nextId, lastOp>>

\* A session effect that never removes the stored session.
EffectSession_Keeps ==
    /\ pending # <<>>
    /\ Head(pending) = "session"
    /\ session' = IF currentUser # NoUser THEN currentUser ELSE session
    /\ pending' = Tail(pending)
    /\ UNCHANGED <<currentUser, tasks, storage, interval, queued, error,
                   errorTimers, now, nextId, lastOp>>

\* "Session persistence"
EffectSession ==
    /\ pending # <<>>
    /\ Head(pending) = "session"
    /\ session' = IF currentUser # NoUser THEN currentUser ELSE NULL
    /\ pending' = Tail(pending)
    /\ UNCHANGED <<currentUser, tasks, storage, interval, queued, error,
                   errorTimers, now, nextId, lastOp>>

\* A timer effect without the early return for "no task runs".
EffectTimer_AlwaysArms ==
    /\ pending # <<>>
    /\ Head(pending) = "timer"
    /\ interval' = (currentUser # NoUser)
    /\ pending' = Tail(pending)
    /\ UNCHANGED <<currentUser, tasks, storage, session, queued, error,
                   errorTimers, now, nextId, lastOp>>

\* A timer effect that returns no cleanup: an armed interval is never
\* cleared.
EffectTimer_NoCleanup ==
    /\ pending # <<>>
    /\ Head(pending) = "timer"
    /\ interval' = (interval \/ (currentUser # NoUser /\ someRunning(tasks)))
    /\ pending' = Tail(pending)
    /\ UNCHANGED <<currentUser, tasks, storage, session, queued, error,
                   errorTimers, now, nextId, lastOp>>

\* "Global Timer Logic": the cleanup of the previous run clears the interval,
\* then the effect arms a new one if a user is logged in and a task runs.
EffectTimer ==
    /\ pending # <<>>
    /\ Head(pending) = "timer"
    /\ interval' = (currentUser # NoUser /\ someRunning(tasks))
    /\ pending' = Tail(pending)
    /\ UNCHANGED <<currentUser, tasks, storage, session, queued, error,
                   errorTimers, now, nextId, lastOp>>

\* The render that applies the setTasks of the load effect.
Rerender ==
    /\ pending = <<>>
    /\ queued # <<>>
    /\ tasks' = queued[1]
    /\ queued' = <<>>
    /\ pending' = effectsAfter(tasks, tasks')
    /\ UNCHANGED <<currentUser, storage, session, interval, error,
                   errorTimers, now, nextId, lastOp>>

\* A day passes.
AdvanceClock ==
    /\ Settled
    /\ dayOf(now) - dayOf(Now0) < MaxClockSteps
    /\ now' = now + HOURS_PER_DAY
    /\ lastOp' = Op("clock", 0, <<>>)
    /\ UNCHANGED <<currentUser, tasks, storage, session, interval, pending,
                   queued, error, errorTimers, nextId>>

(* ------------------------------- stats -------------------------------- *)

count(ts, p(_)) == Len(SelectSeq(ts, p))

monthlyStats(ts) ==
    LET isPending(t) == ~t.completed
        isCompleted(t) == t.completed
    IN [total |-> Len(ts), pending |-> count(ts, isPending),
        completed |-> count(ts, isCompleted)]

\* Daily stats that count every completed task.
dailyStats_AllCompleted(ts, at) ==
    LET isPending(t) == ~t.completed
        isCompleted(t) == t.completed
    IN [total |-> count(ts, isPending) + count(ts, isCompleted),
        pending |-> count(ts, isPending),
        completed |-> count(ts, isCompleted)]

dailyStats(ts, at) ==
    LET isPending(t) == ~t.completed
        isCompletedToday(t) == t.completed /\ isToday(t.createdAt, at)
        pendingCount == count(ts, isPending)
        completedTodayCount == count(ts, isCompletedToday)
    IN [total |-> pendingCount + completedTodayCount,
        pending |-> pendingCount, completed |-> completedTodayCount]

(* --------------------------- specification ---------------------------- *)

\* An identifier that no record of the collection carries; every such
\* identifier takes the same path through the handlers.
staleId(ts) == CHOOSE id \in 1 .. nextId : id \notin ids(ts)

\* Identifiers a handler may be called with: those of the rows on screen and
\* one that is no longer in the collection.
TargetIds == ids(tasks) \cup {staleId(tasks)}

\* The effects React runs after a render, and the render a load asks for.
Effects ==
    \/ EffectLoad
    \/ EffectPersist
    \/ EffectSession
    \/ EffectTimer
    \/ Rerender

Next ==
    \/ \E inputValue \in AddInputs : AddTaskRejected(inputValue)
    \/ \E inputValue \in AddInputs : AddTaskAccepted(inputValue)
    \/ ErrorTimeout
    \/ handleLogout
    \/ \E user \in LoginUsers : onLogin(user)
    \/ \E id \in TargetIds : toggleTask(id)
    \/ \E id \in TargetIds : toggleTimer(id)
    \/ \E id \in TargetIds : deleteTask(id)
    \/ \E id \in TargetIds : \E newText \in EditInputs : editTask(id, newText)
    \/ clearCompleted
    \/ Tick
    \/ Effects
    \/ AdvanceClock

\* One user, every handler, every effect, the tick and the clock.
Spec == Init /\ [][Next]_vars

NextClassify ==
    \/ \E user \in LoginUsers : onLogin(user)
    \/ \E inputValue \in ClassifierInputs : AddTaskAccepted(inputValue)
    \/ \E id \in TargetIds : deleteTask(id)
    \/ \E id \in TargetIds : \E newText \in EditInputs : editTask(id, newText)
    \/ Effects

\* Creation, edit and removal over the inputs that exercise the classifier.
SpecClassify == Init /\ [][NextClassify]_vars

NextError ==
    \/ \E user \in LoginUsers : onLogin(user)
    \/ handleLogout
    \/ \E inputValue \in BlankInputs : AddTaskRejected(inputValue)
    \/ \E inputValue \in AddInputs : AddTaskAccepted(inputValue)
    \/ \E id \in TargetIds : deleteTask(id)
    \/ ErrorTimeout
    \/ Effects

\* Rejected and accepted creation; a timeout that is due fires.
SpecError == Init /\ [][NextError]_vars /\ WF_vars(ErrorTimeout)

NextUsers ==
    \/ \E user \in Users : onLogin(user)
    \/ handleLogout
    \/ \E inputValue \in AddInputs : AddTaskAccepted(inputValue)
    \/ \E id \in TargetIds : toggleTimer(id)
    \/ \E id \in TargetIds : deleteTask(id)
    \/ Tick
    \/ Effects

\* Two users who log in and out in turn, create, time and delete tasks.
SpecUsers == Init /\ [][NextUsers]_vars

NextTimer ==
    \/ \E user \in LoginUsers : onLogin(user)
    \/ handleLogout
    \/ \E id \in TargetIds : toggleTask(id)
    \/ \E id \in TargetIds : toggleTimer(id)
    \/ \E id \in TargetIds : deleteTask(id)
    \/ Tick
    \/ Effects

\* The timers of the loaded tasks.  The effects of a render always run, and
\* an armed interval that is not re-armed fires: the tick is taken if it is
\* possible again and again.
SpecTimer ==
    Init /\ [][NextTimer]_vars /\ WF_vars(Effects) /\ SF_vars(Tick)

(* ------------------------------ properties ---------------------------- *)

\* The record of the collection that carries an identifier.
taskWithId(ts, id) == ts[CHOOSE i \in DOMAIN ts : ts[i].id = id]

\* A step in which a handler or a timer callback ran: nothing was pending
\* before it, and it left effects to run or recorded itself.
HandlerStep == Settled /\ (lastOp' # lastOp \/ pending' # pending)

\* A step of the load effect.
LoadStep == pending # <<>> /\ Head(pending) = "load" /\ pending' = Tail(pending)

\* C1: in every reachable state no task has isTimerRunning = true and
\* completed = true at the same time.
C1_RunningImpliesNotCompleted ==
    \A i \in DOMAIN tasks : ~(tasks[i].isTimerRunning /\ tasks[i].completed)

\* C2: across every step, the timeSpent of a task that is in the collection
\* before and after the step does not decrease, and it is unchanged when the
\* task's isTimerRunning was false before the step; a record read by the load
\* effect keeps the timeSpent it was stored with.
C2_TimeSpentStep ==
    /\ \A i \in DOMAIN tasks : \A j \in DOMAIN tasks' :
          tasks[i].id = tasks'[j].id =>
             /\ tasks'[j].timeSpent >= tasks[i].timeSpent
             /\ ~tasks[i].isTimerRunning =>
                   tasks'[j].timeSpent = tasks[i].timeSpent
    /\ (LoadStep /\ currentUser # NoUser) =>
          LET parsed == parsedBlob(storage[currentUser]) IN
          \A i \in DOMAIN parsed : \A j \in DOMAIN queued'[1] :
             (parsed[i].id = queued'[1][j].id
              /\ "timeSpent" \in DOMAIN parsed[i]) =>
                queued'[1][j].timeSpent = parsed[i].timeSpent

C2_TimeSpentNeverDecreases == [][C2_TimeSpentStep]_vars

\* C2 witness: a tick has advanced a running task while another task of the
\* collection was not running.
C2_Witness ==
    /\ lastOp.op = "tick"
    /\ \E i \in DOMAIN tasks :
          tasks[i].isTimerRunning /\ tasks[i].timeSpent > 0
    /\ \E i \in DOMAIN tasks : ~tasks[i].isTimerRunning

\* C3: a create whose text is empty after trimming leaves the collection as
\* it was and sets the error message; and an error message that is shown is
\* cleared later.
C3_RejectedStep ==
    (HandlerStep /\ lastOp'.op = "addTask" /\ trim(lastOp'.text) = <<>>) =>
       /\ tasks' = tasks
       /\ storage' = storage
       /\ pending' = <<>>
       /\ error' = ERROR_MESSAGE

C3_BlankCreateRejected ==
    /\ [][C3_RejectedStep]_vars
    /\ (error = ERROR_MESSAGE) ~> (error = NULL)

\* C3 witness: a blank create was rejected while the collection held tasks,
\* and its message is on screen.
C3_Witness ==
    /\ lastOp.op = "addTask"
    /\ lastOp.text = TxtBlank
    /\ error = ERROR_MESSAGE
    /\ tasks # <<>>

\* C4: from every reachable collection and for every identifier, two
\* toggleComplete calls in a row give back the collection with the task's
\* completed flag as it was and its isTimerRunning false (its original value
\* if that was false); every other field and every other task is as it was.
C4_DoubleToggle ==
    \A id \in TargetIds :
       LET twice == toggledTasks(id, toggledTasks(id, tasks)) IN
       /\ Len(twice) = Len(tasks)
       /\ \A i \in DOMAIN tasks :
             IF tasks[i].id = id
             THEN /\ twice[i].completed = tasks[i].completed
                  /\ twice[i].isTimerRunning =
                        (IF tasks[i].isTimerRunning = FALSE
                         THEN tasks[i].isTimerRunning ELSE FALSE)
                  /\ twice[i] = [tasks[i] EXCEPT
                                    !.isTimerRunning = twice[i].isTimerRunning]
             ELSE twice[i] = tasks[i]

\* C4 witness: toggleComplete has run on a task of the collection, which
\* holds a completed task and a pending task whose timer runs, so that a
\* double toggle stops a timer.
C4_Witness ==
    /\ lastOp.op = "toggleTask"
    /\ lastOp.id \in ids(tasks)
    /\ Settled
    /\ \E i \in DOMAIN tasks : tasks[i].isTimerRunning /\ ~tasks[i].completed
    /\ \E i \in DOMAIN tasks : tasks[i].completed

\* C5: toggleComplete, toggleTimer, edit and delete called with an
\* identifier that no record carries are enabled and leave the collection as
\* it was: every task, every field, the order.
C5_MissingIdStep ==
    (/\ HandlerStep
     /\ lastOp'.op \in {"toggleTask", "toggleTimer", "editTask", "deleteTask"}
     /\ lastOp'.id \notin ids(tasks)) => tasks' = tasks

C5_MissingIdIsNoOp == [][C5_MissingIdStep]_vars

\* C5 witness: deleteTask ran with an identifier that was not in the
\* collection, and the collection still holds the two loaded tasks.
C5_Witness ==
    /\ lastOp.op = "deleteTask"
    /\ lastOp.id \notin ids(tasks)
    /\ Len(tasks) = 2
    /\ nextId = FirstNewId
    /\ Settled

\* C6: whenever a user is logged in and neither an effect nor a render is
\* outstanding, the blob stored under that user's key is the collection in
\* memory.
C6_StoredEqualsMemory ==
    (Settled /\ currentUser # NoUser) =>
       storage[currentUser] = Stored(tasks)

\* C6 witness: a tick has advanced a running task and the write that follows
\* it has been made.
C6_Witness ==
    /\ Settled
    /\ currentUser # NoUser
    /\ lastOp.op = "tick"
    /\ \E i \in DOMAIN tasks : tasks[i].timeSpent > 0
    /\ storage[currentUser] = Stored(tasks)

\* The positions of a stored collection whose record was created at most
\* RETENTION_DAYS days before `at`.
retainedAt(parsed, at) ==
    {i \in DOMAIN parsed :
        at - parsed[i].createdAt <= RETENTION_DAYS * HOURS_PER_DAY}

\* C7: the load effect hands on exactly the stored records created within the
\* last 30 days, in their stored order (30 days old: kept; older: dropped;
\* 29 days old: kept); the next render makes them the collection; and once
\* the load has settled the stored blob is that collection, with no record
\* older than 30 days left in it.
C7_LoadStep ==
    /\ (LoadStep /\ currentUser # NoUser) =>
          LET parsed == parsedBlob(storage[currentUser])
              kept == retainedAt(parsed, now)
              q == queued'[1]
          IN /\ Len(q) = Cardinality(kept)
             /\ \A i \in kept :
                   LET j == Cardinality({k \in kept : k <= i}) IN
                   /\ q[j].id = parsed[i].id
                   /\ q[j].text = parsed[i].text
                   /\ q[j].completed = parsed[i].completed
                   /\ q[j].createdAt = parsed[i].createdAt
                   /\ q[j].priority = parsed[i].priority
                   /\ q[j].tags = parsed[i].tags
             /\ \A i \in DOMAIN parsed :
                   LET days == RETENTION_DAYS * HOURS_PER_DAY
                       age == now - parsed[i].createdAt
                   IN /\ age = days => parsed[i].id \in ids(q)
                      /\ age = days - HOURS_PER_DAY => parsed[i].id \in ids(q)
                      /\ age > days => parsed[i].id \notin ids(q)
    /\ (pending = <<>> /\ queued # <<>> /\ queued' = <<>>) =>
          tasks' = queued[1]

C7_LoadSettled ==
    (Settled /\ currentUser # NoUser /\ lastOp.op \in {"mount", "login"}) =>
       /\ storage[currentUser] = Stored(tasks)
       /\ \A i \in DOMAIN tasks :
             now - tasks[i].createdAt <= RETENTION_DAYS * HOURS_PER_DAY

C7_RetentionOnLoad == [][C7_LoadStep]_vars /\ []C7_LoadSettled

\* C7 witness: a login has loaded a blob of three records, dropped the one
\* that is 30 days and an hour old, kept the one that is exactly 30 days old
\* and the one that is 29 days old, and the result has been written back.
C7_Witness ==
    /\ Settled
    /\ currentUser = "alice"
    /\ lastOp.op = "login"
    /\ now = Now0
    /\ Len(tasks) = 2
    /\ tasks[1].id = StoredEdge.id
    /\ tasks[2].id = StoredLegacy.id
    /\ tasks[2].timeSpent = 0
    /\ storage["alice"] = Stored(tasks)

\* C8: for every reachable collection the daily total is the number of
\* pending tasks plus the number of completed tasks created today, the
\* monthly total is the size of the collection, and the two totals differ
\* whenever a completed task was created on an earlier day.
C8_StatsTotals ==
    LET pendingIdx == {i \in DOMAIN tasks : ~tasks[i].completed}
        doneToday == {i \in DOMAIN tasks :
                         /\ tasks[i].completed
                         /\ tasks[i].createdAt \div HOURS_PER_DAY
                               = now \div HOURS_PER_DAY}
        donePrior == {i \in DOMAIN tasks :
                         /\ tasks[i].completed
                         /\ tasks[i].createdAt \div HOURS_PER_DAY
                               < now \div HOURS_PER_DAY}
    IN /\ dailyStats(tasks, now).total
             = Cardinality(pendingIdx) + Cardinality(doneToday)
       /\ monthlyStats(tasks).total = Len(tasks)
       /\ donePrior # {} =>
             dailyStats(tasks, now).total # monthlyStats(tasks).total

\* C8 witness: the collection holds a completed task created today and a
\* completed task created on an earlier day.
C8_Witness ==
    /\ Settled
    /\ \E i \in DOMAIN tasks :
          tasks[i].completed /\ dayOf(tasks[i].createdAt) = dayOf(now)
    /\ \E i \in DOMAIN tasks :
          tasks[i].completed /\ dayOf(tasks[i].createdAt) < dayOf(now)

\* The words of a text as a set: the lower-cased maximal runs of letters and
\* digits.
wordsOf(text) ==
    {toLowerCase(SubSeq(text, i, j)) : <<i, j>> \in
        {p \in (DOMAIN text) \X (DOMAIN text) :
            /\ p[1] <= p[2]
            /\ \A k \in p[1] .. p[2] : isAlnum(text[k])
            /\ (p[1] = 1 \/ ~isAlnum(text[p[1] - 1]))
            /\ (p[2] = Len(text) \/ ~isAlnum(text[p[2] + 1]))}}

\* C9: a record created from a text that is not blank has priority High if a
\* word of the text is a High keyword, else Medium if a word is a Medium
\* keyword, else Low, whatever the case of the letters; "URGENT exam
\* tomorrow" gives High and a tag set that includes "Academic".
C9_CreatedPriority ==
    (/\ lastOp.op = "addTask"
     /\ trim(lastOp.text) # <<>>
     /\ lastOp.id \in ids(tasks)) =>
       LET t == taskWithId(tasks, lastOp.id)
           words == wordsOf(trim(lastOp.text))
       IN /\ t.priority =
                (IF words \cap Range(HIGH_KEYWORDS) # {} THEN "High"
                 ELSE IF words \cap Range(MEDIUM_KEYWORDS) # {} THEN "Medium"
                 ELSE "Low")
          /\ lastOp.text = TxtUrgentExam =>
                t.priority = "High" /\ "Academic" \in Range(t.tags)

\* C9 witness: "URGENT exam tomorrow" has been created.
C9_Witness ==
    /\ lastOp.op = "addTask"
    /\ lastOp.text = TxtUrgentExam
    /\ lastOp.id \in ids(tasks)
    /\ taskWithId(tasks, lastOp.id).priority = "High"

\* C10 as stated: the record created from "Buy groceries" has priority Low
\* and the tag set {"Shopping", "Errands"}.
C10_BuyGroceriesAsStated ==
    (/\ lastOp.op = "addTask"
     /\ lastOp.text = TxtBuyGroceries
     /\ lastOp.id \in ids(tasks)) =>
       LET t == taskWithId(tasks, lastOp.id) IN
       t.priority = "Low" /\ Range(t.tags) = {"Shopping", "Errands"}

\* C10 as amended: the record created from "Buy groceries" has priority
\* Medium ("buy" is a Medium keyword) and the tag set {"Shopping"} (the table
\* maps "grocery", and "groceries" is another word).
C10_BuyGroceriesMediumShopping ==
    (/\ lastOp.op = "addTask"
     /\ lastOp.text = TxtBuyGroceries
     /\ lastOp.id \in ids(tasks)) =>
       LET t == taskWithId(tasks, lastOp.id) IN
       t.priority = "Medium" /\ Range(t.tags) = {"Shopping"}

\* C10 witness: "Buy groceries" has been created and stored.
C10_Witness ==
    /\ lastOp.op = "addTask"
    /\ lastOp.text = TxtBuyGroceries
    /\ lastOp.id \in ids(tasks)
    /\ Settled
    /\ taskWithId(tasks, lastOp.id).text = capitalize(TxtBuyGroceries)

\* C11: a create whose text is not blank adds exactly one record, at the
\* front, with an identifier no record of the collection carries,
\* completed = false, timeSpent = 0 and isTimerRunning = false; the records
\* that were there keep their fields and their order; and the identifiers of
\* a collection are pairwise different.
C11_CreateStep ==
    (HandlerStep /\ lastOp'.op = "addTask" /\ trim(lastOp'.text) # <<>>) =>
       /\ Len(tasks') = Len(tasks) + 1
       /\ Tail(tasks') = tasks
       /\ Head(tasks').id \notin ids(tasks)
       /\ Head(tasks').completed = FALSE
       /\ Head(tasks').timeSpent = 0
       /\ Head(tasks').isTimerRunning = FALSE

C11_UniqueIds ==
    \A i \in DOMAIN tasks : \A j \in DOMAIN tasks :
       tasks[i].id = tasks[j].id => i = j

C11_CreateAddsOneInFront == [][C11_CreateStep]_vars /\ []C11_UniqueIds

\* C11 witness: a create has put a new record in front of a loaded one.
C11_Witness ==
    /\ lastOp.op = "addTask"
    /\ Len(tasks) = 2
    /\ tasks[1].id = lastOp.id
    /\ tasks[1].id >= FirstNewId
    /\ tasks[2].id < FirstNewId
    /\ Settled

\* C12: an edit whose text is blank changes nothing; an edit whose text is
\* not blank changes the text of the task with that identifier and nothing
\* else: no other field of it, no other task, not the order; and no task of
\* the collection has an empty text.
C12_EditStep ==
    (HandlerStep /\ lastOp'.op = "editTask") =>
       IF trim(lastOp'.text) = <<>>
       THEN tasks' = tasks /\ pending' = <<>>
       ELSE /\ Len(tasks') = Len(tasks)
            /\ \A i \in DOMAIN tasks :
                  IF tasks[i].id = lastOp'.id
                  THEN /\ tasks'[i].text # <<>>
                       /\ tasks'[i] = [tasks[i] EXCEPT !.text = tasks'[i].text]
                  ELSE tasks'[i] = tasks[i]

C12_TextNeverEmpty == \A i \in DOMAIN tasks : tasks[i].text # <<>>

C12_EditChangesOnlyText == [][C12_EditStep]_vars /\ []C12_TextNeverEmpty

\* C12 witness: a task classified High has been given the text "Plan B" and
\* is still High.
C12_Witness ==
    /\ lastOp.op = "editTask"
    /\ lastOp.text = TxtPlan
    /\ lastOp.id \in ids(tasks)
    /\ taskWithId(tasks, lastOp.id).text = <<"P", "l", "a", "n", " ", "B">>
    /\ taskWithId(tasks, lastOp.id).priority = "High"

\* C13: a tick adds exactly 1 to the timeSpent of every task whose
\* isTimerRunning is true, all in the same step, and changes nothing else:
\* not the timeSpent of a task that is not running, no other field, no
\* membership, no order.
C13_TickStep ==
    (HandlerStep /\ lastOp'.op = "tick") =>
       /\ Len(tasks') = Len(tasks)
       /\ \A i \in DOMAIN tasks :
             /\ tasks'[i].timeSpent =
                   tasks[i].timeSpent + (IF tasks[i].isTimerRunning THEN 1 ELSE 0)
             /\ tasks'[i] = [tasks[i] EXCEPT !.timeSpent = tasks'[i].timeSpent]

C13_TickAdvancesRunningByOne == [][C13_TickStep]_vars

\* C13 witness: one tick has advanced two running tasks.
C13_Witness ==
    /\ lastOp.op = "tick"
    /\ Len(tasks) = 2
    /\ \A i \in DOMAIN tasks :
          tasks[i].isTimerRunning /\ tasks[i].timeSpent = 1

\* C14: once the effects have settled, the interval is armed exactly when a
\* user is logged in and a task of the collection has isTimerRunning = true.
C14_ArmedIffRunning ==
    Settled => (interval <=> (currentUser # NoUser /\ someRunning(tasks)))

\* C14 witness: the last timer has been stopped and the interval is cleared,
\* after having fired.
C14_Witness ==
    /\ Settled
    /\ currentUser # NoUser
    /\ lastOp.op = "toggleTimer"
    /\ lastOp.id \in ids(tasks)
    /\ taskWithId(tasks, lastOp.id).timeSpent > 0
    /\ ~someRunning(tasks)
    /\ ~interval

\* A step of the interval callback.
TickStep == HandlerStep /\ lastOp'.op = "tick"

\* C15: while no user is logged in, from the logout on, no tick fires, no
\* task's timeSpent changes in memory or in a stored blob, and once the
\* effects of the logout have run the interval is cleared.
C15_LoggedOutStep ==
    currentUser = NoUser =>
       /\ ~TickStep
       /\ storage' = storage
       /\ \A i \in DOMAIN tasks : \A j \in DOMAIN tasks' :
             tasks[i].id = tasks'[j].id =>
                tasks'[j].timeSpent = tasks[i].timeSpent

C15_LoggedOutSettled == (Settled /\ currentUser = NoUser) => ~interval

C15_NoTickAfterLogout == [][C15_LoggedOutStep]_vars /\ []C15_LoggedOutSettled

\* C15 witness: a user has logged out while a task was running; the task is
\* stored as running, and the interval is cleared.
C15_Witness ==
    /\ Settled
    /\ currentUser = NoUser
    /\ lastOp.op = "logout"
    /\ someRunning(parsedBlob(storage["alice"]))
    /\ ~interval

\* C16: a handler or tick after which the same user is logged in and before
\* and after which some task runs schedules no run of the timer effect; the
\* timer effect is scheduled only by a step that changes the user or whether
\* some task runs; and only the timer effect arms or clears the interval.
C16_RearmStep ==
    /\ (/\ HandlerStep
        /\ currentUser' = currentUser
        /\ someRunning(tasks)
        /\ someRunning(tasks')) => "timer" \notin Range(pending')
    /\ ("timer" \in Range(pending') /\ "timer" \notin Range(pending)) =>
          (currentUser' # currentUser
           \/ someRunning(tasks') # someRunning(tasks))
    /\ ~(pending # <<>> /\ Head(pending) = "timer") => interval' = interval

C16_RearmedOnlyOnEdges == [][C16_RearmStep]_vars

\* C16 witness: a task was created while another task was running, and the
\* interval is armed.
C16_Witness ==
    /\ Settled
    /\ interval
    /\ lastOp.op = "addTask"
    /\ lastOp.id \in ids(tasks)
    /\ \E i \in DOMAIN tasks :
          tasks[i].id # lastOp.id /\ tasks[i].isTimerRunning

\* C17: from a login, or a start with a saved session, until the loaded
\* collection has been rendered and written, no step removes from the user's
\* stored blob a record that was created within the last 30 days.
C17_LoadingStep ==
    (/\ currentUser # NoUser
     /\ lastOp.op \in {"mount", "login"}
     /\ ~Settled) =>
       LET before == parsedBlob(storage[currentUser])
           after == parsedBlob(storage'[currentUser])
       IN \A i \in retainedAt(before, now) : before[i].id \in ids(after)

C17_BlobKeptWhileLoading == [][C17_LoadingStep]_vars

\* C18: a step that changes the blob under a user's key is made while that
\* user is logged in and stores the rendered collection; no identifier is
\* stored under two keys; the collection in memory, and the one a load has
\* handed on, share no identifier with another user's blob; and a record
\* that was stored under one user's key before the run is never stored
\* under another's.
C18_WriteStep ==
    \A u \in Users :
       storage'[u] # storage[u] =>
          currentUser = u /\ storage'[u] = Stored(tasks)

C18_KeysDisjoint ==
    \A u \in Users : \A v \in Users \ {u} :
       /\ ids(parsedBlob(storage[u])) \cap ids(parsedBlob(storage[v])) = {}
       /\ currentUser = u =>
             /\ ids(tasks) \cap ids(parsedBlob(storage[v])) = {}
             /\ ids(parsedBlob(queued)) \cap ids(parsedBlob(storage[v])) = {}
       /\ ids(parsedBlob(storage[v])) \cap ids(StoredBlob) # {} => v = "alice"

C18_NoCrossUserWrite == [][C18_WriteStep]_vars /\ []C18_KeysDisjoint

\* C18 witness: the second user is logged in with a task of their own in
\* memory and in their blob, after the first user's blob was loaded, changed
\* and written.
C18_Witness ==
    /\ Settled
    /\ currentUser = "bob"
    /\ tasks # <<>>
    /\ storage["bob"] = Stored(tasks)
    /\ Len(parsedBlob(storage["alice"])) = 2
    /\ \E i \in DOMAIN parsedBlob(storage["alice"]) :
          parsedBlob(storage["alice"])[i].id >= FirstNewId

\* C19: the logout step leaves every stored blob as it is, and the blob of
\* the user who logs out is then the collection of the last render, the
\* last one written; no step taken while no user is logged in changes a
\* blob; and once the effects of the logout have run the stored session is
\* removed and the collection in memory is empty.
C19_LogoutStep ==
    /\ (HandlerStep /\ lastOp'.op = "logout") =>
          /\ storage' = storage
          /\ storage[currentUser] = Stored(tasks)
    /\ currentUser = NoUser => storage' = storage

C19_LoggedOutSettled ==
    (Settled /\ currentUser = NoUser) => (session = NULL /\ tasks = <<>>)

C19_LogoutKeepsBlob == [][C19_LogoutStep]_vars /\ []C19_LoggedOutSettled

\* C19 witness: a user has logged out after creating a task; the session is
\* removed, the collection is empty and the blob holds the created task.
C19_Witness ==
    /\ Settled
    /\ currentUser = NoUser
    /\ lastOp.op = "logout"
    /\ session = NULL
    /\ tasks = <<>>
    /\ \E i \in DOMAIN parsedBlob(storage["alice"]) :
          parsedBlob(storage["alice"])[i].id >= FirstNewId

\* The task with an identifier is in the collection, runs, and has been
\* active for k ticks.
runningAt(id, k) ==
    \E i \in DOMAIN tasks :
       /\ tasks[i].id = id
       /\ tasks[i].isTimerRunning
       /\ tasks[i].timeSpent = k

\* The tick has advanced the task beyond k, or the task has stopped running
\* or left the collection, or no user is logged in, or some running task has
\* reached the largest timeSpent the model follows.
advancedOrReleased(id, k) ==
    \/ \E i \in DOMAIN tasks : tasks[i].id = id /\ tasks[i].timeSpent > k
    \/ ~(\E i \in DOMAIN tasks : tasks[i].id = id /\ tasks[i].isTimerRunning)
    \/ currentUser = NoUser
    \/ \E i \in DOMAIN tasks :
          tasks[i].isTimerRunning /\ tasks[i].timeSpent >= MaxTime

\* C20: when the tick is scheduled fairly, the timeSpent of a task that keeps
\* running, stays in the collection and whose user stays logged in
\* eventually increases.
C20_RunningTaskAdvances ==
    \A id \in 1 .. (FirstNewId + MaxNewIds) : \A k \in 0 .. (MaxTime - 1) :
       (currentUser # NoUser /\ runningAt(id, k)) ~> advancedOrReleased(id, k)

\* C20 witness: the 29-day-old task was started and the tick has advanced
\* it while the other loaded task stood still.
C20_Witness ==
    /\ Settled
    /\ currentUser = "alice"
    /\ interval
    /\ runningAt(StoredLegacy.id, 1)
    /\ \E i \in DOMAIN tasks :
          tasks[i].id = StoredEdge.id /\ tasks[i].timeSpent = 0

=============================================================================
